---- MODULE Spec2Model ----
(***************************************************************************)
(* Model of the EOS photovoltaic inverter dispatch (devices/inverter.py)   *)
(* and of the load forecast calibration (prediction/loadakkudoktor.py).    *)
(*                                                                         *)
(* Energies are integers (watt-hours).  The self-consumption ratio scr is  *)
(* the rational scrNum / ScrDen; a call is modelled only for inputs on     *)
(* which (generation - consumption) * scr is a whole number, so that the   *)
(* arithmetic of the model is the exact arithmetic of the code.            *)
(* Optional values are sequences: <<>> is None, <<v>> is the value v.      *)
(***************************************************************************)
EXTENDS Integers, Sequences, FiniteSets, TLC

\* ---------------------------------------------------------------- bounds
MaxEnergy == 3        \* generation and consumption range over 0..MaxEnergy
MaxPower == 2         \* inverter capacities range over 1..MaxPower
MaxLoss == 1          \* battery conversion losses range over 0..MaxLoss
ScrDen == 2           \* the predictor's ratios are 0/ScrDen .. ScrDen/ScrDen
MaxFirstDay == 2      \* the first measurement falls on day 0..MaxFirstDay
MaxFirstHour == 13    \* ... at hour 0 or at hour MaxFirstHour of that day
MaxSpanDays == 8      \* the measurements span at most MaxSpanDays whole days
MaxExtraHours == 1    \* ... plus at most MaxExtraHours hours
MaxSeed == 1          \* synthetic measurement series 0 and MaxSeed
MaxYearEnergy == 2    \* loadakkudoktor_year_energy is None or MaxYearEnergy
MaxStartDay == 4      \* the forecast starts on day 0 or on day MaxStartDay
MaxPredictionHours == 48   \* config.prediction_hours

None == <<>>
Some(v) == <<v>>
IsNone(o) == o = <<>>
Val(o) == o[1]

\* the element of a one-element set
TheOne(S) == CHOOSE x \in S : TRUE

Max2(a, b) == IF a >= b THEN a ELSE b
Min2(a, b) == IF a <= b THEN a ELSE b

VARIABLES
    constructed,     \* an Inverter object exists
    provider_id,     \* self.provider_id : None or Some(string)
    prefix,          \* self.prefix
    parameters,      \* self.parameters : None or Some(max_power_wh)
    initialised,     \* self.initialised
    max_power_wh,    \* self.max_power_wh : None while the attribute is unset
    last,            \* the last call: operation, inputs, battery calls, exception
    ret              \* the tuple returned by the last process_energy

invVars == <<constructed, provider_id, prefix, parameters, initialised,
             max_power_wh, last, ret>>

VARIABLES
    min_datetime,    \* self.measurement.min_datetime : None or Some(hour)
    max_datetime,    \* self.measurement.max_datetime : None or Some(hour)
    series,          \* which readings self.measurement holds
    end_inclusive,   \* measurement.load_total answers for the end hour too
    year_energy_cfg, \* self.config.loadakkudoktor_year_energy : None or Some
    start_datetime,  \* self.start_datetime
    upd              \* the last _update_data call: adjustment and forecast

loadVars == <<min_datetime, max_datetime, series, end_inclusive,
              year_energy_cfg, start_datetime, upd>>

vars == <<constructed, provider_id, prefix, parameters, initialised,
          max_power_wh, last, ret, min_datetime, max_datetime, series,
          end_inclusive, year_energy_cfg, start_datetime, upd>>

\* ------------------------------------------------- Inverter: construction

ProviderIds == {None, Some("GenericInverter"), Some("OtherProvider")}
PowerChoices == 1..MaxPower
\* InverterParameters.max_power_wh is validated gt=0
ParameterChoices == {None} \cup {Some(p) : p \in PowerChoices}

\* prefix chosen by __init__
PrefixOf(pid) == IF pid = Some("GenericInverter") THEN "inverter" ELSE "<invalid>"

NoCall == [op |-> "none", raised |-> "", branch |-> "", generation |-> 0,
           consumption |-> 0, scrNum |-> 0, scr_queried |-> FALSE,
           calls |-> <<>>]
NoRet == [grid_export |-> 0, grid_import |-> 0, losses |-> 0, self_consumption |-> 0]

\* Result of running setup() on an object with the given fields; cfg is the
\* value the configuration holds for inverter_power_max.
\* Returns [raised, max_power_wh].
SetupResult(isInit, pid, pfx, params, cur, cfg) ==
    IF isInit THEN [raised |-> "", max_power_wh |-> cur]
    ELSE IF ~IsNone(pid)
         THEN IF pfx = "inverter"
              THEN [raised |-> "", max_power_wh |-> Some(cfg)]
              ELSE [raised |-> "AttributeError", max_power_wh |-> cur]
         ELSE IF ~IsNone(params)
              THEN [raised |-> "", max_power_wh |-> params]
              ELSE [raised |-> "ValueError", max_power_wh |-> cur]

NoUpdate == [op |-> "none", raised |-> "", queried |-> FALSE,
             load_total_array |-> <<>>, compare_start |-> None,
             weekday_adjust |-> <<>>, weekend_adjust |-> <<>>,
             load_mean |-> <<>>, load_std |-> <<>>, load_mean_adjusted |-> <<>>]

Init ==
    /\ min_datetime = None
    /\ max_datetime = None
    /\ series = 0
    /\ end_inclusive = TRUE
    /\ year_energy_cfg = None
    /\ start_datetime = 0
    /\ upd = NoUpdate
    /\ constructed = FALSE
    /\ provider_id = None
    /\ prefix = "<invalid>"
    /\ parameters = None
    /\ initialised = FALSE
    /\ max_power_wh = None
    /\ last = NoCall
    /\ ret = NoRet

\* __init__ raised: no object is left
Discard(err) ==
    /\ constructed' = FALSE
    /\ provider_id' = None
    /\ prefix' = "<invalid>"
    /\ parameters' = None
    /\ initialised' = FALSE
    /\ max_power_wh' = None
    /\ last' = [NoCall EXCEPT !.op = "__init__", !.raised = err]
    /\ ret' = NoRet

\* Inverter.__init__(predictor, parameters, akku, provider_id)
Construct ==
    /\ UNCHANGED loadVars
    /\ \E params \in ParameterChoices, akku \in BOOLEAN, pid \in ProviderIds,
       cfg \in PowerChoices :
        IF ~akku
        THEN Discard("NotImplementedError")
        ELSE IF IsNone(params)
             THEN /\ constructed' = TRUE
                  /\ provider_id' = pid
                  /\ prefix' = PrefixOf(pid)
                  /\ parameters' = params
                  /\ initialised' = FALSE
                  /\ max_power_wh' = None
                  /\ last' = [NoCall EXCEPT !.op = "__init__"]
                  /\ ret' = NoRet
             ELSE LET s == SetupResult(FALSE, pid, PrefixOf(pid), params, None, cfg)
                  IN IF s.raised # ""
                     THEN Discard(s.raised)
                     ELSE /\ constructed' = TRUE
                          /\ provider_id' = pid
                          /\ prefix' = PrefixOf(pid)
                          /\ parameters' = params
                          /\ initialised' = FALSE
                          /\ max_power_wh' = s.max_power_wh
                          /\ last' = [NoCall EXCEPT !.op = "__init__"]
                          /\ ret' = NoRet

\* Inverter.setup()
Setup ==
    /\ constructed
    /\ UNCHANGED loadVars
    /\ \E cfg \in PowerChoices :
         LET s == SetupResult(initialised, provider_id, prefix, parameters,
                              max_power_wh, cfg)
         IN /\ max_power_wh' = s.max_power_wh
            /\ last' = [NoCall EXCEPT !.op = "setup", !.raised = s.raised]
    /\ ret' = NoRet
    /\ UNCHANGED <<constructed, provider_id, prefix, parameters, initialised>>

\* ------------------------------------------- Inverter: process_energy

\* A battery answer (applied, losses) to a request, within the BatteryPort
\* contract 0 <= applied <= requested, losses >= 0.
BatteryAnswers(requested) ==
    {[applied |-> a, losses |-> l] : a \in 0..requested, l \in 0..MaxLoss}
NoAnswer == [applied |-> 0, losses |-> 0]

\* (generation - consumption) * scr and (generation - consumption) * (1.0 - scr)
RemainingPower(generation, consumption, scrNum) ==
    ((generation - consumption) * scrNum) \div ScrDen
\* RemainingLoadEvq with scr in place of 1.0 - scr
RemainingLoadEvqSameShare(generation, consumption, scrNum) ==
    ((generation - consumption) * scrNum) \div ScrDen
RemainingLoadEvq(generation, consumption, scrNum) ==
    ((generation - consumption) * (ScrDen - scrNum)) \div ScrDen
\* the two products are whole numbers
ExactProducts(generation, consumption, scrNum) ==
    ((generation - consumption) * scrNum) % ScrDen = 0

\* Which branch of process_energy the inputs take
BranchOf(maxp, generation, consumption) ==
    IF generation >= consumption
    THEN IF consumption > maxp THEN "saturation" ELSE "surplus"
    ELSE "deficit"

\* DischargeRequest that ignores the inverter headroom in the deficit branch
DischargeRequestNoHeadroom(maxp, generation, consumption, scrNum) ==
    CASE BranchOf(maxp, generation, consumption) = "saturation" -> None
      [] BranchOf(maxp, generation, consumption) = "surplus" ->
            IF RemainingLoadEvq(generation, consumption, scrNum) > 0
            THEN Some(RemainingLoadEvq(generation, consumption, scrNum))
            ELSE None
      [] OTHER -> Some(consumption - generation)

\* Amount requested of akku.discharge_energy, None when it is not called
DischargeRequest(maxp, generation, consumption, scrNum) ==
    CASE BranchOf(maxp, generation, consumption) = "saturation" -> None
      [] BranchOf(maxp, generation, consumption) = "surplus" ->
            IF RemainingLoadEvq(generation, consumption, scrNum) > 0
            THEN Some(RemainingLoadEvq(generation, consumption, scrNum))
            ELSE None
      [] OTHER ->
            Some(Min2(consumption - generation, Max2(maxp - generation, 0)))

\* Amount requested of akku.charge_energy, None when it is not called
ChargeRequest(maxp, generation, consumption, scrNum) ==
    IF /\ BranchOf(maxp, generation, consumption) = "surplus"
       /\ RemainingPower(generation, consumption, scrNum) > 0
    THEN Some(RemainingPower(generation, consumption, scrNum))
    ELSE None

\* SaturationBranch without the sign flip of remaining_power
SaturationBranchNoFlip(maxp, generation, consumption) ==
    [grid_export |-> 0,
     grid_import |-> maxp - consumption,
     losses |-> generation - maxp,
     self_consumption |-> maxp]

\* SaturationBranch counting the surplus instead of the capacity excess as loss
SaturationBranchSurplusLoss(maxp, generation, consumption) ==
    [grid_export |-> 0,
     grid_import |-> consumption - maxp,
     losses |-> generation - consumption,
     self_consumption |-> maxp]

\* consumption > max_power_wh, generation >= consumption
SaturationBranch(maxp, generation, consumption) ==
    LET losses == generation - maxp
        remaining_power == maxp - consumption
    IN [grid_export |-> 0,
        grid_import |-> 0 - remaining_power,
        losses |-> losses,
        self_consumption |-> maxp]

\* FeedIn without the cap
FeedInUncapped(maxp, consumption, remaining_surplus) ==
    [grid_export |-> remaining_surplus, excess |-> 0]

\* FeedIn that caps the export and forgets the excess
FeedInDropExcess(maxp, consumption, remaining_surplus) ==
    IF remaining_surplus > maxp - consumption
    THEN [grid_export |-> maxp - consumption, excess |-> 0]
    ELSE [grid_export |-> remaining_surplus, excess |-> 0]

\* Feed-in of remaining_surplus, capped at the inverter headroom:
\* the export and the part that becomes a loss
FeedIn(maxp, consumption, remaining_surplus) ==
    IF remaining_surplus > maxp - consumption
    THEN [grid_export |-> maxp - consumption,
          excess |-> remaining_surplus - (maxp - consumption)]
    ELSE [grid_export |-> remaining_surplus, excess |-> 0]

\* generation >= consumption, consumption <= max_power_wh
\* dis and chg are the battery's answers to the discharge and charge calls
SurplusBranch(maxp, generation, consumption, scrNum, dis, chg) ==
    LET remaining_power == RemainingPower(generation, consumption, scrNum)
        remaining_load_evq == RemainingLoadEvq(generation, consumption, scrNum)
        discharged == remaining_load_evq > 0
        from_battery == IF discharged THEN dis.applied ELSE 0
        losses1 == IF discharged THEN dis.losses ELSE 0
        rest_evq == IF discharged THEN remaining_load_evq - dis.applied
                    ELSE remaining_load_evq
        grid_import == IF discharged /\ rest_evq > 0 THEN rest_evq ELSE 0
        charging == remaining_power > 0
        remaining_surplus == remaining_power - (chg.applied + chg.losses)
        feed == FeedIn(maxp, consumption, remaining_surplus)
        grid_export == IF charging THEN feed.grid_export ELSE 0
        losses2 == IF charging THEN losses1 + feed.excess + chg.losses ELSE losses1
    IN [grid_export |-> grid_export,
        grid_import |-> grid_import,
        losses |-> losses2,
        self_consumption |-> consumption + from_battery]

\* generation < consumption
DeficitBranch(maxp, generation, consumption, dis) ==
    LET shortfall == consumption - generation
        battery_discharge == dis.applied
    IN [grid_export |-> 0,
        grid_import |-> shortfall - battery_discharge,
        losses |-> dis.losses,
        self_consumption |-> generation + battery_discharge]

\* The tuple process_energy returns
ProcessEnergyResult(maxp, generation, consumption, scrNum, dis, chg) ==
    CASE BranchOf(maxp, generation, consumption) = "saturation" ->
            SaturationBranch(maxp, generation, consumption)
      [] BranchOf(maxp, generation, consumption) = "surplus" ->
            SurplusBranch(maxp, generation, consumption, scrNum, dis, chg)
      [] OTHER -> DeficitBranch(maxp, generation, consumption, dis)

\* The battery calls process_energy makes, in order, with their answers
BatteryCalls(maxp, generation, consumption, scrNum, dis, chg) ==
    LET dreq == DischargeRequest(maxp, generation, consumption, scrNum)
        creq == ChargeRequest(maxp, generation, consumption, scrNum)
    IN (IF IsNone(dreq) THEN <<>>
        ELSE <<[kind |-> "discharge", requested |-> Val(dreq),
                applied |-> dis.applied, losses |-> dis.losses]>>)
       \o
       (IF IsNone(creq) THEN <<>>
        ELSE <<[kind |-> "charge", requested |-> Val(creq),
                applied |-> chg.applied, losses |-> chg.losses]>>)

AnswersTo(req) == IF IsNone(req) THEN {NoAnswer} ELSE BatteryAnswers(Val(req))

\* Inverter.process_energy(generation, consumption, hour)
ProcessEnergy ==
    /\ constructed
    /\ UNCHANGED loadVars
    /\ UNCHANGED <<constructed, provider_id, prefix, parameters, initialised,
                   max_power_wh>>
    /\ \E generation \in 0..MaxEnergy, consumption \in 0..MaxEnergy,
          scrNum \in 0..ScrDen :
         IF IsNone(max_power_wh)
         THEN \* self.max_power_wh is read before anything else happens
              /\ scrNum = 0
              /\ last' = [NoCall EXCEPT !.op = "process_energy",
                                        !.raised = "AttributeError",
                                        !.generation = generation,
                                        !.consumption = consumption]
              /\ ret' = NoRet
         ELSE LET maxp == Val(max_power_wh)
                  branch == BranchOf(maxp, generation, consumption)
              IN /\ ExactProducts(generation, consumption, scrNum)
                 /\ branch # "surplus" => scrNum = 0
                 /\ \E dis \in AnswersTo(DischargeRequest(maxp, generation,
                                                          consumption, scrNum)),
                       chg \in AnswersTo(ChargeRequest(maxp, generation,
                                                       consumption, scrNum)) :
                      /\ last' = [op |-> "process_energy", raised |-> "",
                                  branch |-> branch,
                                  generation |-> generation,
                                  consumption |-> consumption,
                                  scrNum |-> scrNum,
                                  scr_queried |-> (branch = "surplus"),
                                  calls |-> BatteryCalls(maxp, generation,
                                              consumption, scrNum, dis, chg)]
                      /\ ret' = ProcessEnergyResult(maxp, generation, consumption,
                                                    scrNum, dis, chg)

Next == Construct \/ Setup \/ ProcessEnergy

Spec == Init /\ [][Next]_vars

\* ---------------------------------------------- LoadAkkudoktor: calendar

\* Datetimes are whole hours counted from 00:00 of 1 January, a Monday.
HoursPerDay == 24
CompareDays == 7
WeekdayCount == 5
Kilo == 1000

Hour(t) == t % HoursPerDay
DayOfYear(t) == (t \div HoursPerDay) + 1
DayOfWeek(t) == (t \div HoursPerDay) % 7
\* (a - b).days for a >= b
DaysBetween(a, b) == (a - b) \div HoursPerDay
Hours == 0..(HoursPerDay - 1)

\* Rational numbers n / d, d > 0, in lowest terms
RECURSIVE Gcd(_, _)
Gcd(a, b) == IF b = 0 THEN a ELSE Gcd(b, a % b)
Abs(n) == IF n < 0 THEN 0 - n ELSE n
Rat(n, d) ==
    LET g == Gcd(Abs(n), d)
    IN [num |-> n \div g, den |-> d \div g]
RatPlusInt(k, r) == Rat(k * r.den + r.num, r.den)

\* The weights 1 / (days + 1), days in 0..CompareDays, are whole multiples
\* of 1 / WeightScale; the accumulators are kept in that unit.
WeightScale == 8 * 7 * 5 * 3

\* ------------------------------------------- LoadAkkudoktor: load_data

\* The relative profile of the archive: yearly_profiles (stat 0) and
\* yearly_profiles_std (stat 1), per day index (day_of_year - 1) and hour.
ProfileData(day, stat, hour) ==
    IF stat = 0 THEN ((day + 2 * hour) % 3) + 1 ELSE (day + hour) % 2

\* data_year_energy[day, stat, hour] as load_data builds it
DataYearEnergy(year_energy, day, stat, hour) ==
    ProfileData(day, stat, hour) * year_energy * Kilo

\* load_data raises when the configured yearly energy is None
LoadDataRaises(year_energy_opt) ==
    IF IsNone(year_energy_opt) THEN "ValueError" ELSE ""

\* ------------------------------------ LoadAkkudoktor: _calculate_adjustment

\* np.zeros(24)
Zeros == [h \in Hours |-> 0]

\* np.ones(24) in place of np.zeros(24)
ZeroAdjustmentAsOnes == [h \in Hours |-> Rat(1, 1)]
\* the adjustment returned when there is no measurement
ZeroAdjustment == [h \in Hours |-> Rat(0, 1)]

\* start of the comparison window: 7 days before the last measurement,
\* or the first measurement when that is later
CompareStart(min_dt, max_dt) ==
    IF max_dt - CompareDays * HoursPerDay < min_dt
    THEN min_dt
    ELSE max_dt - CompareDays * HoursPerDay

\* The total load the measurement store holds for hour t
SyntheticLoad(seed, t) == ((t * (seed + 2)) % 5) * Kilo

\* measurement.load_total(start, end, 1 hour): one total per hour from start
\* on; the sample at end itself is present when inclusive holds.
LoadTotal(seed, inclusive, start, end) ==
    [i \in 1..(end - start + (IF inclusive THEN 1 ELSE 0)) |->
        SyntheticLoad(seed, start + (i - 1))]

\* Weight that ignores the age of the sample
WeightUniform(compare_end, compare_dt) == WeightScale

\* weight = 1 / ((compare_end - compare_dt).days + 1), in units of 1 / WeightScale
Weight(compare_end, compare_dt) ==
    WeightScale \div (DaysBetween(compare_end, compare_dt) + 1)

\* One pass of the loop over load_total_array, at index i (1-based)
AdjustStep(acc, year_energy, load_total_array, compare_start, compare_end, i) ==
    LET load_total == load_total_array[i]
        compare_dt == compare_start + (i - 1)
        mean == DataYearEnergy(year_energy, DayOfYear(compare_dt) - 1, 0,
                               Hour(compare_dt))
        weight == Weight(compare_end, compare_dt)
        h == Hour(compare_dt)
    IN IF DayOfWeek(compare_dt) < WeekdayCount
       THEN [acc EXCEPT
               !.weekday_adjust[h] = @ + (load_total - mean) * weight,
               !.weekday_adjust_weight[h] = @ + weight]
       ELSE [acc EXCEPT
               !.weekend_adjust[h] = @ + (load_total - mean) * weight,
               !.weekend_adjust_weight[h] = @ + weight]

RECURSIVE AdjustLoop(_, _, _, _, _, _)
AdjustLoop(acc, year_energy, load_total_array, compare_start, compare_end, i) ==
    IF i > Len(load_total_array)
    THEN acc
    ELSE TheOne({AdjustLoop(next, year_energy, load_total_array,
                            compare_start, compare_end, i + 1)
                 : next \in {AdjustStep(acc, year_energy, load_total_array,
                                        compare_start, compare_end, i)}})

\* "Calculate mean": the division by the weight sum where it is > 0
MeanOf(adjust, adjust_weight) ==
    [h \in Hours |->
        IF adjust_weight[h] > 0
        THEN Rat(adjust[h], adjust_weight[h])
        ELSE Rat(adjust[h], WeightScale)]

\* _calculate_adjustment(data_year_energy): the pair it returns.
\* min_dt, max_dt are Optional; load_total_array is what the measurement
\* series answers for the comparison window.
CalculateAdjustment(year_energy, min_dt, max_dt, load_total_array) ==
    IF IsNone(max_dt)
    THEN [weekday_adjust |-> ZeroAdjustment, weekend_adjust |-> ZeroAdjustment]
    ELSE LET compare_start == CompareStart(Val(min_dt), Val(max_dt))
             compare_end == Val(max_dt)
         IN TheOne({[weekday_adjust |->
                        MeanOf(acc.weekday_adjust, acc.weekday_adjust_weight),
                     weekend_adjust |->
                        MeanOf(acc.weekend_adjust, acc.weekend_adjust_weight)]
                    : acc \in {AdjustLoop([weekday_adjust |-> Zeros,
                                           weekday_adjust_weight |-> Zeros,
                                           weekend_adjust |-> Zeros,
                                           weekend_adjust_weight |-> Zeros],
                                          year_energy, load_total_array,
                                          compare_start, compare_end, 1)}})

\* ------------------------------------------ LoadAkkudoktor: _update_data

\* The values _update_data stores for hour i (1-based) of the horizon
ForecastAt(year_energy, adj, start, i) ==
    LET date == start + (i - 1)
        mean == DataYearEnergy(year_energy, DayOfYear(date) - 1, 0, Hour(date))
        std == DataYearEnergy(year_energy, DayOfYear(date) - 1, 1, Hour(date))
    IN [load_mean |-> mean,
        load_std |-> std,
        load_mean_adjusted |->
            IF DayOfWeek(date) < WeekdayCount
            THEN RatPlusInt(mean, adj.weekday_adjust[Hour(date)])
            ELSE RatPlusInt(mean, adj.weekend_adjust[Hour(date)])]

YearEnergyChoices == {None, Some(MaxYearEnergy)}
StartChoices == {0, MaxStartDay * HoursPerDay}

\* What the measurement series answers in _calculate_adjustment: nothing is
\* asked when there is no measurement
QueryAnswer(seed, inclusive, min_dt, max_dt) ==
    IF IsNone(max_dt) THEN <<>>
    ELSE LoadTotal(seed, inclusive,
                   CompareStart(Val(min_dt), Val(max_dt)), Val(max_dt))

\* LoadAkkudoktor._update_data()
UpdateData ==
    /\ UNCHANGED <<min_datetime, max_datetime, series, end_inclusive,
                   year_energy_cfg, start_datetime>>
    /\ UNCHANGED invVars
    /\ IF LoadDataRaises(year_energy_cfg) # ""
       THEN upd' = [NoUpdate EXCEPT !.op = "_update_data",
                                    !.raised = LoadDataRaises(year_energy_cfg)]
       ELSE \E load_total_array \in {QueryAnswer(series, end_inclusive,
                                                 min_datetime, max_datetime)} :
            \E adj \in {CalculateAdjustment(Val(year_energy_cfg), min_datetime,
                                            max_datetime, load_total_array)} :
            \E fc \in {[i \in 1..MaxPredictionHours |->
                          ForecastAt(Val(year_energy_cfg), adj, start_datetime, i)]} :
              upd' = [op |-> "_update_data", raised |-> "",
                      queried |-> ~IsNone(max_datetime),
                      load_total_array |-> load_total_array,
                      compare_start |->
                          IF IsNone(max_datetime) THEN None
                          ELSE Some(CompareStart(Val(min_datetime),
                                                 Val(max_datetime))),
                      weekday_adjust |-> adj.weekday_adjust,
                      weekend_adjust |-> adj.weekend_adjust,
                      load_mean |-> [i \in 1..MaxPredictionHours |-> fc[i].load_mean],
                      load_std |-> [i \in 1..MaxPredictionHours |-> fc[i].load_std],
                      load_mean_adjusted |->
                          [i \in 1..MaxPredictionHours |-> fc[i].load_mean_adjusted]]

\* The configuration is (re)initialised: yearly energy and forecast start;
\* the behaviour of the measurement store at the window end is fixed with it
Configure ==
    /\ \E ye \in YearEnergyChoices, sd \in StartChoices, incl \in BOOLEAN :
         /\ year_energy_cfg' = ye
         /\ start_datetime' = sd
         /\ end_inclusive' = incl
    /\ upd' = NoUpdate
    /\ UNCHANGED <<min_datetime, max_datetime, series>>
    /\ UNCHANGED invVars

\* The measurement store receives its first reading
RecordFirst ==
    /\ IsNone(max_datetime)
    /\ \E d \in 0..MaxFirstDay, h \in {0, MaxFirstHour}, seed \in {0, MaxSeed} :
         /\ min_datetime' = Some(d * HoursPerDay + h)
         /\ max_datetime' = Some(d * HoursPerDay + h)
         /\ series' = seed
    /\ upd' = NoUpdate
    /\ UNCHANGED <<end_inclusive, year_energy_cfg, start_datetime>>
    /\ UNCHANGED invVars

\* The measurement store receives a reading one hour after the last one
RecordHour ==
    /\ ~IsNone(max_datetime)
    /\ (Val(max_datetime) - Val(min_datetime)) % HoursPerDay < MaxExtraHours
    /\ max_datetime' = Some(Val(max_datetime) + 1)
    /\ upd' = NoUpdate
    /\ UNCHANGED <<min_datetime, series, end_inclusive, year_energy_cfg,
                   start_datetime>>
    /\ UNCHANGED invVars

\* The measurement store receives a reading one day after the last one
RecordDay ==
    /\ ~IsNone(max_datetime)
    /\ (Val(max_datetime) - Val(min_datetime)) \div HoursPerDay < MaxSpanDays
    /\ max_datetime' = Some(Val(max_datetime) + HoursPerDay)
    /\ upd' = NoUpdate
    /\ UNCHANGED <<min_datetime, series, end_inclusive, year_energy_cfg,
                   start_datetime>>
    /\ UNCHANGED invVars

NextLoad == Configure \/ RecordFirst \/ RecordHour \/ RecordDay \/ UpdateData

SpecLoad == Init /\ [][NextLoad]_vars

\* ------------------------------------------------ Inverter: properties

\* process_energy was the last call and returned a tuple
Returned == last.op = "process_energy" /\ last.raised = ""

CallsOf(kind) == {i \in DOMAIN last.calls : last.calls[i].kind = kind}
ChargedEnergy == IF CallsOf("charge") = {} THEN 0
                 ELSE last.calls[CHOOSE i \in CallsOf("charge") : TRUE].applied
ChargeLosses == IF CallsOf("charge") = {} THEN 0
                ELSE last.calls[CHOOSE i \in CallsOf("charge") : TRUE].losses
DischargeLosses == IF CallsOf("discharge") = {} THEN 0
                   ELSE last.calls[CHOOSE i \in CallsOf("discharge") : TRUE].losses

AllNonNegative ==
    /\ ret.grid_export >= 0
    /\ ret.grid_import >= 0
    /\ ret.losses >= 0
    /\ ret.self_consumption >= 0

\* C1 (as stated): with a battery that answers 0 <= applied <= requested and
\* losses >= 0, every value process_energy returns is >= 0.
C1_NonNegative == Returned => AllNonNegative

\* The battery never takes more out of a charge request than was offered
ChargeWithinRequest ==
    \A i \in CallsOf("charge") :
        last.calls[i].applied + last.calls[i].losses <= last.calls[i].requested

\* C1 (amended): if in addition the charged energy plus the charge losses do
\* not exceed the amount offered for charging, every value process_energy
\* returns is >= 0.
C1_NonNegativeWithinRequest == (Returned /\ ChargeWithinRequest) => AllNonNegative

\* a surplus call in which the battery was asked to discharge and to charge,
\* the charge had losses, and part of the (1 - scr) share came from the grid
C1_Witness ==
    /\ Returned /\ ChargeWithinRequest
    /\ \E i \in CallsOf("charge") : last.calls[i].losses > 0
    /\ CallsOf("discharge") # {}
    /\ ret.grid_import > 0

\* C2: the inverter throughput self_consumption + grid_export of a returned
\* result never exceeds max_power_wh.
C2_ThroughputWithinCapacity ==
    Returned => ret.self_consumption + ret.grid_export <= Val(max_power_wh)

\* C3 (as stated): no result has both grid_export > 0 and grid_import > 0.
C3_NoImportWithExport == Returned => ~(ret.grid_export > 0 /\ ret.grid_import > 0)

\* C3 (amended): a result has both grid_export > 0 and grid_import > 0 only
\* in the surplus branch with a ratio strictly between 0 and 1.
C3_ImportWithExportOnlyOnSplit ==
    (Returned /\ ret.grid_export > 0 /\ ret.grid_import > 0)
        => (/\ last.generation >= last.consumption
            /\ last.consumption <= Val(max_power_wh)
            /\ 0 < last.scrNum /\ last.scrNum < ScrDen)

\* a surplus call with scr = 1 that charges and exports without importing
C3_Witness ==
    /\ Returned
    /\ last.branch = "surplus" /\ last.scrNum = ScrDen
    /\ ret.grid_export > 0 /\ ret.grid_import = 0
    /\ CallsOf("charge") # {}

\* C4 (as stated): in the surplus branch the surplus generation - consumption
\* equals charged energy + grid_export + the losses that are not discharge
\* losses.
C4_SurplusAccounted ==
    (Returned /\ last.generation >= last.consumption
              /\ last.consumption <= Val(max_power_wh))
        => last.generation - last.consumption
              = ChargedEnergy + ret.grid_export + (ret.losses - DischargeLosses)

\* C4 (amended): in the surplus branch the scr share of the surplus,
\* (generation - consumption) * scr, equals charged energy + grid_export +
\* the losses that are not discharge losses.
C4_SurplusShareAccounted ==
    (Returned /\ last.generation >= last.consumption
              /\ last.consumption <= Val(max_power_wh))
        => (last.generation - last.consumption) * last.scrNum
              = ScrDen * (ChargedEnergy + ret.grid_export
                          + (ret.losses - DischargeLosses))

\* a surplus call whose export was capped, with part of the surplus charged
\* and a ratio below 1
C4_Witness ==
    /\ Returned /\ last.branch = "surplus"
    /\ 0 < last.scrNum /\ last.scrNum < ScrDen
    /\ ret.grid_export = Val(max_power_wh) - last.consumption
    /\ ret.losses - DischargeLosses - ChargeLosses > 0

\* C5: when generation < consumption the result has grid_export = 0 and
\* self_consumption + grid_import = consumption; the only battery call is one
\* discharge of min(consumption - generation, max(max_power_wh - generation, 0)).
C5_DeficitBranch ==
    (Returned /\ last.generation < last.consumption)
        => LET shortfall == last.consumption - last.generation
               headroom == IF Val(max_power_wh) - last.generation > 0
                           THEN Val(max_power_wh) - last.generation ELSE 0
           IN /\ ret.grid_export = 0
              /\ ret.self_consumption + ret.grid_import = last.consumption
              /\ Len(last.calls) = 1
              /\ last.calls[1].kind = "discharge"
              /\ last.calls[1].requested
                    = (IF shortfall < headroom THEN shortfall ELSE headroom)
              /\ CallsOf("charge") = {}

\* a deficit call whose request was cut by the headroom and partly served
C5_Witness ==
    /\ Returned /\ last.generation < last.consumption
    /\ Len(last.calls) = 1
    /\ last.calls[1].requested < last.consumption - last.generation
    /\ last.calls[1].applied > 0
    /\ ret.grid_import > 0

\* C6: when consumption > max_power_wh and generation >= consumption the
\* result is grid_export = 0, self_consumption = max_power_wh, grid_import =
\* consumption - max_power_wh, losses = generation - max_power_wh, and neither
\* the battery nor the predictor is consulted.
C6_SaturationBranch ==
    (Returned /\ last.consumption > Val(max_power_wh)
              /\ last.generation >= last.consumption)
        => /\ ret.grid_export = 0
           /\ ret.self_consumption = Val(max_power_wh)
           /\ ret.grid_import = last.consumption - Val(max_power_wh)
           /\ ret.losses = last.generation - Val(max_power_wh)
           /\ last.calls = <<>>
           /\ ~last.scr_queried

\* a saturated call with generation above consumption
C6_Witness ==
    /\ Returned /\ last.consumption > Val(max_power_wh)
    /\ last.generation > last.consumption
    /\ ret.losses > ret.grid_import

\* C7: when consumption <= max_power_wh, grid_export <= max_power_wh -
\* consumption.
C7_ExportClamp ==
    (Returned /\ last.consumption <= Val(max_power_wh))
        => ret.grid_export <= Val(max_power_wh) - last.consumption

\* a surplus call whose remaining surplus exceeded the headroom
C7_Witness ==
    /\ Returned /\ last.branch = "surplus"
    /\ ret.grid_export = Val(max_power_wh) - last.consumption
    /\ ret.losses - DischargeLosses - ChargeLosses > 0

\* C8: process_energy never fails for want of configuration: whenever it
\* runs, max_power_wh is defined and the call raises nothing.
C8_NoDispatchFailure ==
    last.op = "process_energy" => (last.raised = "" /\ ~IsNone(max_power_wh))

\* ------------------------------------------ LoadAkkudoktor: properties

\* _update_data was the last call and stored a forecast
Updated == upd.op = "_update_data" /\ upd.raised = ""

RECURSIVE SumOver(_, _)
\* the sum of term[i] over the indices i in S
SumOver(S, term) ==
    IF S = {} THEN 0
    ELSE LET i == CHOOSE x \in S : TRUE
         IN term[i] + SumOver(S \ {i}, term)

\* The comparison window: the trailing 7 days of measurements, or all of them
WindowEnd == max_datetime[1]
WindowStart ==
    IF WindowEnd - min_datetime[1] > 7 * 24 THEN WindowEnd - 7 * 24
    ELSE min_datetime[1]
\* the hour of the i-th sample of the window
SampleTime(i) == WindowStart + i - 1
\* the samples of the window on hour h of a weekday (or weekend) day
SamplesOn(h, weekday) ==
    {i \in DOMAIN upd.load_total_array :
        /\ SampleTime(i) % 24 = h
        /\ (((SampleTime(i) \div 24) % 7) < 5) = weekday}
\* residual and weight of sample i; the weight 1 / (days + 1) is counted in
\* units of 1 / 840
Residual(i) ==
    upd.load_total_array[i]
        - DataYearEnergy(year_energy_cfg[1], SampleTime(i) \div 24, 0,
                         SampleTime(i) % 24)
WeightOf(i) == 840 \div (((WindowEnd - SampleTime(i)) \div 24) + 1)
WeightedMean(S) ==
    LET rw == [i \in S |-> Residual(i) * WeightOf(i)]
        w == [i \in S |-> WeightOf(i)]
    IN IF S = {} THEN Rat(0, 1) ELSE Rat(SumOver(S, rw), SumOver(S, w))

\* C9: with measurements, the adjustment of every hour of day and class is
\* the weighted mean sum(residual * weight) / sum(weight) over the samples of
\* the comparison window on that hour and class, weight = 1 / (whole days to
\* the window end + 1); it is 0 where the window has no such sample.
C9_WeightedMean ==
    (Updated /\ ~IsNone(max_datetime))
        => \A h \in 0..23 :
              /\ upd.weekday_adjust[h] = WeightedMean(SamplesOn(h, TRUE))
              /\ upd.weekend_adjust[h] = WeightedMean(SamplesOn(h, FALSE))

\* a window cut to 7 days in which some hour has samples of several ages
\* with a fractional weekday mean, and the weekend has a non-zero adjustment
C9_Witness ==
    /\ Updated /\ ~IsNone(max_datetime)
    /\ WindowStart > min_datetime[1]
    /\ \E h \in 0..23 :
          /\ Cardinality(SamplesOn(h, TRUE)) > 1
          /\ upd.weekday_adjust[h].den > 1
    /\ \E h \in 0..23 : upd.weekend_adjust[h].num # 0

\* C10: without any measurement both adjustment vectors have length 24 and
\* are zero throughout, the measurement series is not queried, and the
\* forecast stores load_mean_adjusted = load_mean for every hour.
C10_ZeroMeasurement ==
    (Updated /\ IsNone(max_datetime))
        => /\ DOMAIN upd.weekday_adjust = 0..23
           /\ DOMAIN upd.weekend_adjust = 0..23
           /\ \A h \in 0..23 : /\ upd.weekday_adjust[h] = [num |-> 0, den |-> 1]
                               /\ upd.weekend_adjust[h] = [num |-> 0, den |-> 1]
           /\ ~upd.queried
           /\ upd.load_total_array = <<>>
           /\ \A i \in DOMAIN upd.load_mean_adjusted :
                 upd.load_mean_adjusted[i] = [num |-> upd.load_mean[i], den |-> 1]

\* a forecast without measurements that covers weekday and weekend hours
C10_Witness ==
    /\ Updated /\ IsNone(max_datetime)
    /\ Len(upd.load_mean_adjusted) >= 24
    /\ \E i, j \in DOMAIN upd.load_mean :
          /\ ((start_datetime + i - 1) \div 24) % 7 < 5
          /\ ((start_datetime + j - 1) \div 24) % 7 >= 5
          /\ upd.load_mean[i] > 0

====
